---- MODULE Spec2Model ----
(***************************************************************************)
(* Model of the Summary Generator (generate_context_summaries.py): the     *)
(* destination table, the checkpoint file, and one generator process that  *)
(* is started, runs record by record with retries, and may be killed at    *)
(* any point between two of its externally visible effects (an HTTP call,  *)
(* the truncation of the checkpoint file, the completed write of it).      *)
(*                                                                         *)
(* Abstractions: a summary text is a sequence of characters; the error     *)
(* message and the timestamps of the checkpoint are not modelled.          *)
(***************************************************************************)
EXTENDS Integers, Sequences, FiniteSets, TLC

(* ----------------------------- bounds ---------------------------------- *)
\* number of rows of the local SQLite ayat table (ids 1..NumAyat)
NumAyat == 2
\* number of times the generator process is started
MaxRuns == 2
\* number of ayat in the source the Seeder reads
NumSeed == 3
\* upload_to_supabase(): batch_size (100 in the source, small here so that
\* the source makes a full batch and a shorter last one)
batch_size == 2
\* number of times the Seeder is run to its upload
MaxSeedRuns == 2

(* ------------------------- program constants --------------------------- *)
MIN_DELAY == 2
MAX_RETRIES == 3
BACKOFF_MULTIPLIER == 2

(* ------------------------------ values --------------------------------- *)
\* an optional value: <<>> is None / SQL NULL, <<v>> is the value v
None == <<>>
Some(v) == <<v>>

\* bodies the completion API can return as choices[0].message.content
RawContents == { <<" ">>, <<" ", "T", " ">>, <<"T">> }

IsSpace(c) == c = " "

\* str.strip(): drop leading and trailing whitespace
RECURSIVE LStrip(_)
LStrip(s) == IF s # <<>> /\ IsSpace(Head(s)) THEN LStrip(Tail(s)) ELSE s

RECURSIVE RStrip(_)
RStrip(s) ==
    IF s # <<>> /\ IsSpace(s[Len(s)]) THEN RStrip(SubSeq(s, 1, Len(s) - 1)) ELSE s

Strip(s) == RStrip(LStrip(s))

Ids == 1..NumAyat

\* rows returned by the SQLite query, ORDER BY a.id
AyatList ==
    [i \in Ids |-> [id |-> i,
                    surah_id |-> ((i - 1) \div 2) + 1,
                    ayah_number |-> ((i - 1) % 2) + 1]]

\* f"{ayah['surah_id']}:{ayah['ayah_number']}"
SurahAyah(ayah) == <<ayah.surah_id, ayah.ayah_number>>

Range(s) == {s[k] : k \in DOMAIN s}

RECURSIVE SortedSeq(_)
SortedSeq(S) ==
    IF S = {} THEN <<>>
    ELSE LET m == CHOOSE x \in S : \A y \in S : x <= y
         IN <<m>> \o SortedSeq(S \ {m})

(* ------------------------------ delays --------------------------------- *)
\* time.sleep(secs), w being the seconds slept since the latest completion
\* call returned or raised (None: the process has made no such call yet)
time_sleep(w, secs) == IF w = None THEN None ELSE Some(w[1] + secs)

\* a backoff that does not grow
wait_time_flat(k) == MIN_DELAY

\* process_ayah(): wait_time = MIN_DELAY * (BACKOFF_MULTIPLIER ** attempt)
wait_time(k) == MIN_DELAY * (BACKOFF_MULTIPLIER ^ k)

\* main() going to the next ayah without a pause
pace_between_ayat_none(w) == w

\* main(): time.sleep(MIN_DELAY) that ends each iteration of the loop
pace_between_ayat(w) == time_sleep(w, MIN_DELAY)

(* -------------------------- checkpoint file ---------------------------- *)
\* the dictionary load_progress returns when the file does not exist
NewProgress == [last_completed_id |-> 0, total_generated |-> 0, errors |-> <<>>]

\* load_progress(): the parsed file, or the fresh dictionary
load_progress(file) == IF file.state = "valid" THEN file.doc ELSE NewProgress

\* open(PROGRESS_FILE, 'w') truncates the file before json.dump writes it
Truncated == [state |-> "torn", doc |-> NewProgress]

\* the file once json.dump has written it and the with-block closed it
save_progress(prog) == [state |-> "valid", doc |-> prog]

(* --------------------------- remote store ------------------------------ *)
\* the query without its is.null filter
get_ayat_without_summaries_unfiltered(table) ==
    SortedSeq({i \in DOMAIN table : table[i].present})

\* GET ayat?select=id&context_summary_en=is.null&order=id
get_ayat_without_summaries(table) ==
    SortedSeq({i \in DOMAIN table : table[i].present /\ table[i].en = None})

\* the work-set filtered by the query result and by the checkpoint
Remaining_both(missing, prog) ==
    IF missing # None
    THEN SelectSeq(AyatList, LAMBDA a : a.id \in Range(missing[1])
                                        /\ a.id > prog.last_completed_id)
    ELSE SelectSeq(AyatList, LAMBDA a : a.id > prog.last_completed_id)

\* main(): the work-set, from the query result (None when the query failed)
Remaining(missing, prog) ==
    IF missing # None
    THEN SelectSeq(AyatList, LAMBDA a : a.id \in Range(missing[1]))
    ELSE SelectSeq(AyatList, LAMBDA a : a.id > prog.last_completed_id)

\* the PATCH request with the two summaries exchanged
PatchRequest_swapped(ayah_id, summary_en, summary_id) ==
    [id |-> ayah_id, body |-> [context_summary_en |-> summary_id,
                               context_summary_id |-> summary_en]]

\* update_supabase(): the PATCH request
PatchRequest(ayah_id, summary_en, summary_id) ==
    [id |-> ayah_id, body |-> [context_summary_en |-> summary_en,
                               context_summary_id |-> summary_id]]

\* PATCH ayat?id=eq.<id>: a partial update of the rows the filter matches
update_supabase(table, req) ==
    [i \in Ids |->
        IF i = req.id /\ table[i].present
        THEN [table[i] EXCEPT !.en = Some(req.body.context_summary_en),
                              !.idn = Some(req.body.context_summary_id)]
        ELSE table[i]]

(* ------------------------------- state --------------------------------- *)
VARIABLES
    store,        \* the remote ayat table: id -> [present, en, idn]
    disk,         \* generation_progress.json: [state, doc]
    pc,           \* where the generator process is ("idle": not running)
    progress,     \* main(): the progress dictionary in memory
    missing_ids,  \* main(): result of get_ayat_without_summaries()
    remaining,    \* main(): the work-set
    idx,          \* main(): position of the loop in remaining
    attempt,      \* process_ayah(): the loop variable
    summary_en,   \* process_ayah(): local, None while unbound
    summary_id,   \* process_ayah(): local, None while unbound
    runs,         \* history: number of process starts so far
    lastEnd,      \* history: how the latest run that ended did end
    outcomes,     \* history: terminal outcomes of the latest run, in order
    succ,         \* history: id -> latest run in which it succeeded (0: never)
    enAt,         \* history: attempt that bound summary_en (-1: unbound)
    idAt,         \* history: attempt that bound summary_id (-1: unbound)
    sent,         \* history: PATCH requests of the current attempt that were answered
    waited,       \* history: seconds slept since the latest completion call
    startup,      \* history: the latest start: [error, requested]
    ledger,       \* history: terminal outcomes since the checkpoint was created
    columns,      \* the remote ayat table: id -> the seeded columns of the row
    seedPc,       \* where the Seeder process is ("idle": not running)
    records,      \* upload_to_supabase(): records
    offset,       \* upload_to_supabase(): the loop variable i
    rec_no,       \* upload_to_supabase(): position of record in batch
    posted,       \* history: the POSTs of the latest Seeder run, in order
    seedRuns,     \* history: number of Seeder runs that reached the upload
    seedEnd       \* history: how the latest Seeder start went

locals == <<progress, missing_ids, remaining, idx, attempt, summary_en, summary_id>>
hist == <<runs, lastEnd, outcomes, succ, enAt, idAt, sent, waited, startup, ledger>>
seedVars == <<columns, seedPc, records, offset, rec_no, posted, seedRuns, seedEnd>>
vars == <<store, disk, pc, locals, hist, seedVars>>

EmptyRow == [present |-> FALSE, en |-> None, idn |-> None]
SeededRow == [present |-> TRUE, en |-> None, idn |-> None]
\* a row after a successful PATCH of the Summary Generator
EnrichedRow == [present |-> TRUE, en |-> Some(<<"T">>), idn |-> Some(<<"T">>)]

(* ------------------------------ seeding -------------------------------- *)
\* get_ayat_from_sqlite(): the row the SELECT returns for ayah k (text_simple,
\* juz_number and page_number travel as text_uthmani does)
SourceRow(k) ==
    [id |-> k, surah_id |-> ((k - 1) \div 2) + 1,
     ayah_number |-> ((k - 1) % 2) + 1,
     text_uthmani |-> "T", translation_en |-> "E", translation_id |-> "I"]

\* get_ayat_from_sqlite(): ORDER BY a.surah_id, a.ayah_number
get_ayat_from_sqlite == [k \in 1..NumSeed |-> SourceRow(k)]

\* the columns of the ayat table that the Seeder fills
SeededColumns == {"id", "surah_id", "ayah_number", "text_uthmani"}

\* a record that names the summary columns, with no value
SeedRecord_withSummaries(a) ==
    [id |-> a.id, surah_id |-> a.surah_id, ayah_number |-> a.ayah_number,
     text_uthmani |-> a.text_uthmani,
     context_summary_en |-> None, context_summary_id |-> None]

\* upload_to_supabase(): the dictionary appended to records
SeedRecord(a) ==
    [id |-> a.id, surah_id |-> a.surah_id, ayah_number |-> a.ayah_number,
     text_uthmani |-> a.text_uthmani]

\* the seeded columns of a row uploaded from an earlier version of the source
StaleColumns(k) == [SeedRecord(SourceRow(k)) EXCEPT !.text_uthmani = "old"]

\* every row of the payload takes the payload's first record
RecordFor_first(payload, k) == payload[1]

\* the record of the payload that is keyed by id k
RecordFor(payload, k) ==
    payload[CHOOSE n \in 1..Len(payload) : payload[n].id = k]

InPayload(payload, k) == \E n \in 1..Len(payload) : payload[n].id = k

\* POST /rest/v1/ayat with Prefer: resolution=merge-duplicates, accepted:
\* each record is inserted, or merged into the row with its id; a column the
\* record does not name keeps its value (NULL in a new row)
UpsertStore(table, payload) ==
    [k \in DOMAIN table |->
        IF InPayload(payload, k)
        THEN LET rec == RecordFor(payload, k)
             IN [present |-> TRUE,
                 en |-> IF "context_summary_en" \in DOMAIN rec
                        THEN rec.context_summary_en ELSE table[k].en,
                 idn |-> IF "context_summary_id" \in DOMAIN rec
                         THEN rec.context_summary_id ELSE table[k].idn]
        ELSE table[k]]

UpsertColumns(cols, payload) ==
    [k \in DOMAIN cols |->
        IF InPayload(payload, k)
        THEN Some([c \in SeededColumns |-> RecordFor(payload, k)[c]])
        ELSE cols[k]]

\* verify_upload(): the count of the content-range header, 0 when the request
\* fails
verify_upload(table, queryOk) ==
    IF queryOk THEN Cardinality({k \in DOMAIN table : table[k].present}) ELSE 0

\* The Seeder has not been started
SeederIdle ==
    /\ seedPc = "idle"
    /\ records = <<>>
    /\ offset = 0
    /\ rec_no = 0
    /\ posted = <<>>
    /\ seedRuns = 0
    /\ seedEnd = "none"

\* The Summary Generator has not been started; no checkpoint file
GeneratorIdle ==
    /\ disk = [state |-> "absent", doc |-> NewProgress]
    /\ pc = "idle"
    /\ progress = NewProgress
    /\ missing_ids = None
    /\ remaining = <<>>
    /\ idx = 0
    /\ attempt = 0
    /\ summary_en = None
    /\ summary_id = None
    /\ runs = 0
    /\ lastEnd = "none"
    /\ outcomes = <<>>
    /\ succ = [i \in Ids |-> 0]
    /\ enAt = -1
    /\ idAt = -1
    /\ sent = <<>>
    /\ waited = None
    /\ startup = [error |-> "none", requested |-> FALSE]
    /\ ledger = [successes |-> 0, errors |-> <<>>]

\* The table as the Seeder leaves it: a row per uploaded ayah (a batch that
\* failed leaves its rows out), no summary yet; no checkpoint file.
Init ==
    /\ store \in [Ids -> {EmptyRow, SeededRow}]
    /\ columns = [k \in Ids |-> IF store[k].present
                                THEN Some(SeedRecord(SourceRow(k))) ELSE None]
    /\ SeederIdle
    /\ GeneratorIdle

ayah == remaining[idx]

\* the process is gone: its memory with it
ProcessGone ==
    /\ pc' = "idle"
    /\ progress' = NewProgress
    /\ missing_ids' = None
    /\ remaining' = <<>>
    /\ idx' = 0
    /\ attempt' = 0
    /\ summary_en' = None
    /\ summary_id' = None
    /\ enAt' = -1
    /\ idAt' = -1
    /\ sent' = <<>>
    /\ waited' = None

\* process_ayah() is entered for remaining[k]
EnterProcessAyah(k) ==
    /\ pc' = "gen_en"
    /\ idx' = k
    /\ attempt' = 0
    /\ summary_en' = None
    /\ summary_id' = None
    /\ enAt' = -1
    /\ idAt' = -1
    /\ sent' = <<>>

\* The start of the script: the module-level check of the environment, then
\* main() up to the filter: load_progress, the query, the SQLite read.
\* config is what the process finds: everything, an environment variable
\* missing, or the SQLite file missing.
Start ==
    /\ pc = "idle"
    /\ runs < MaxRuns
    /\ UNCHANGED seedVars
    /\ UNCHANGED <<store, disk, succ, idx, attempt, summary_en, summary_id,
                   enAt, idAt, sent, waited, ledger>>
    /\ \E config \in {"ok", "no_env", "no_db"} :
         IF config = "no_env"
         THEN \* sys.exit(1) at import time
              /\ startup' = [error |-> "no_env", requested |-> FALSE]
              /\ UNCHANGED <<pc, progress, missing_ids, remaining, runs,
                             lastEnd, outcomes>>
         ELSE IF disk.state = "torn"
         THEN \* json.load raises on the truncated file
              /\ startup' = [error |-> "none", requested |-> FALSE]
              /\ runs' = runs + 1
              /\ outcomes' = <<>>
              /\ lastEnd' = "crashed"
              /\ UNCHANGED <<pc, progress, missing_ids, remaining>>
         ELSE IF config = "no_db"
         THEN \* the query has been sent when sqlite3 raises on the SELECT
              /\ startup' = [error |-> "no_db", requested |-> TRUE]
              /\ UNCHANGED <<pc, progress, missing_ids, remaining, runs,
                             lastEnd, outcomes>>
         ELSE \E queryOk \in BOOLEAN :
                /\ startup' = [error |-> "none", requested |-> TRUE]
                /\ runs' = runs + 1
                /\ outcomes' = <<>>
                /\ progress' = load_progress(disk)
                /\ missing_ids' = IF queryOk
                                  THEN Some(get_ayat_without_summaries(store))
                                  ELSE None
                /\ remaining' = Remaining(missing_ids', progress')
                /\ pc' = "main"
                /\ UNCHANGED lastEnd

\* main(): "if not remaining: return", else the loop is entered
EnterLoop ==
    /\ pc = "main"
    /\ UNCHANGED seedVars
    /\ UNCHANGED <<store, disk, runs, outcomes, succ, startup, ledger>>
    /\ IF remaining = <<>>
       THEN /\ lastEnd' = "done"
            /\ ProcessGone
       ELSE /\ EnterProcessAyah(1)
            /\ UNCHANGED <<progress, missing_ids, remaining, lastEnd, waited>>

\* seconds slept since the latest completion call, once the call of the
\* current step (if it is one) has returned or raised
SinceCall == IF pc \in {"gen_en", "gen_id"} THEN Some(0) ELSE waited

\* the except clause writing the checkpoint before every retry
OnException_saving ==
    IF attempt < MAX_RETRIES - 1
    THEN /\ attempt' = attempt + 1
         /\ pc' = "gen_en"
         /\ waited' = time_sleep(SinceCall, wait_time(attempt))
         /\ disk' = save_progress(progress)
         /\ UNCHANGED progress
    ELSE /\ progress' = [progress EXCEPT !.errors =
                            Append(@, [ayah_id |-> ayah.id,
                                       surah_ayah |-> SurahAyah(ayah)])]
         /\ disk' = Truncated
         /\ pc' = "save_err"
         /\ waited' = SinceCall
         /\ UNCHANGED attempt

\* the except clause giving up one attempt early
OnException_early ==
    IF attempt < MAX_RETRIES - 2
    THEN /\ attempt' = attempt + 1
         /\ pc' = "gen_en"
         /\ waited' = time_sleep(SinceCall, wait_time(attempt))
         /\ UNCHANGED <<progress, disk>>
    ELSE /\ progress' = [progress EXCEPT !.errors =
                            Append(@, [ayah_id |-> ayah.id,
                                       surah_ayah |-> SurahAyah(ayah)])]
         /\ disk' = Truncated
         /\ pc' = "save_err"
         /\ waited' = SinceCall
         /\ UNCHANGED attempt

\* the except clause retrying the sub-step that failed
OnException_substep ==
    IF attempt < MAX_RETRIES - 1
    THEN /\ attempt' = attempt + 1
         /\ pc' = pc
         /\ waited' = time_sleep(SinceCall, wait_time(attempt))
         /\ UNCHANGED <<progress, disk>>
    ELSE /\ progress' = [progress EXCEPT !.errors =
                            Append(@, [ayah_id |-> ayah.id,
                                       surah_ayah |-> SurahAyah(ayah)])]
         /\ disk' = Truncated
         /\ pc' = "save_err"
         /\ waited' = SinceCall
         /\ UNCHANGED attempt

\* process_ayah(): the except clause
OnException ==
    IF attempt < MAX_RETRIES - 1
    THEN /\ attempt' = attempt + 1
         /\ pc' = "gen_en"
         /\ waited' = time_sleep(SinceCall, wait_time(attempt))
         /\ UNCHANGED <<progress, disk>>
    ELSE /\ progress' = [progress EXCEPT !.errors =
                            Append(@, [ayah_id |-> ayah.id,
                                       surah_ayah |-> SurahAyah(ayah)])]
         /\ disk' = Truncated
         /\ pc' = "save_err"
         /\ waited' = SinceCall
         /\ UNCHANGED attempt

\* summary_en = generate_summary(ayah, "English")
GenerateEN ==
    /\ pc = "gen_en"
    /\ UNCHANGED seedVars
    /\ UNCHANGED <<store, missing_ids, remaining, idx, summary_id,
                   runs, lastEnd, outcomes, succ, idAt, sent, startup, ledger>>
    /\ \/ \E content \in RawContents :
            /\ summary_en' = Some(Strip(content))
            /\ enAt' = attempt
            /\ pc' = "gen_id"
            /\ waited' = time_sleep(SinceCall, MIN_DELAY)
            /\ UNCHANGED <<progress, disk, attempt>>
       \/ /\ OnException
          /\ UNCHANGED <<summary_en, enAt>>

\* summary_id = generate_summary(ayah, "Indonesian")
GenerateID ==
    /\ pc = "gen_id"
    /\ UNCHANGED seedVars
    /\ UNCHANGED <<store, missing_ids, remaining, idx, summary_en,
                   runs, lastEnd, outcomes, succ, enAt, sent, startup, ledger>>
    /\ \/ \E content \in RawContents :
            /\ summary_id' = Some(Strip(content))
            /\ idAt' = attempt
            /\ pc' = "patch"
            /\ waited' = SinceCall
            /\ UNCHANGED <<progress, disk, attempt>>
       \/ /\ OnException
          /\ UNCHANGED <<summary_id, idAt>>

\* update_supabase(ayah_id, summary_en, summary_id): the store applies the
\* request and answers, or urlopen raises and the table is as before
UpdateSupabase ==
    /\ pc = "patch"
    /\ UNCHANGED seedVars
    /\ UNCHANGED <<missing_ids, remaining, idx, summary_en, summary_id,
                   runs, lastEnd, outcomes, succ, enAt, idAt, startup, ledger>>
    /\ LET req == PatchRequest(ayah.id, summary_en[1], summary_id[1])
       IN \/ /\ store' = update_supabase(store, req)
             /\ sent' = Append(sent, req)
             /\ pc' = "patched"
             /\ UNCHANGED <<progress, disk, attempt, waited>>
          \/ /\ store' = store
             /\ sent' = <<>>
             /\ OnException

\* process_ayah(): the success branch up to the open() of save_progress
RecordSuccess ==
    /\ pc = "patched"
    /\ UNCHANGED seedVars
    /\ progress' = [progress EXCEPT !.last_completed_id = ayah.id,
                                    !.total_generated = @ + 1]
    /\ disk' = Truncated
    /\ pc' = "save_ok"
    /\ UNCHANGED <<store, missing_ids, remaining, idx, attempt,
                   summary_en, summary_id, hist>>

\* the loop of main() stopping at the first failed record
FinishRecord_halting ==
    /\ pc \in {"save_ok", "save_err"}
    /\ UNCHANGED seedVars
    /\ disk' = save_progress(progress)
    /\ outcomes' = Append(outcomes, [id |-> ayah.id, ok |-> (pc = "save_ok")])
    /\ succ' = IF pc = "save_ok" THEN [succ EXCEPT ![ayah.id] = runs] ELSE succ
    /\ ledger' = IF pc = "save_ok"
                 THEN [ledger EXCEPT !.successes = @ + 1]
                 ELSE [ledger EXCEPT !.errors =
                          Append(@, progress.errors[Len(progress.errors)])]
    /\ UNCHANGED <<store, runs, startup>>
    /\ IF idx < Len(remaining) /\ pc = "save_ok"
       THEN /\ EnterProcessAyah(idx + 1)
            /\ waited' = pace_between_ayat(waited)
            /\ UNCHANGED <<progress, missing_ids, remaining, lastEnd>>
       ELSE /\ lastEnd' = "done"
            /\ ProcessGone

\* save_progress() completes, process_ayah() returns, main() moves on
FinishRecord ==
    /\ pc \in {"save_ok", "save_err"}
    /\ UNCHANGED seedVars
    /\ disk' = save_progress(progress)
    /\ outcomes' = Append(outcomes, [id |-> ayah.id, ok |-> (pc = "save_ok")])
    /\ succ' = IF pc = "save_ok" THEN [succ EXCEPT ![ayah.id] = runs] ELSE succ
    /\ ledger' = IF pc = "save_ok"
                 THEN [ledger EXCEPT !.successes = @ + 1]
                 ELSE [ledger EXCEPT !.errors =
                          Append(@, progress.errors[Len(progress.errors)])]
    /\ UNCHANGED <<store, runs, startup>>
    /\ IF idx < Len(remaining)
       THEN /\ EnterProcessAyah(idx + 1)
            /\ waited' = pace_between_ayat(waited)
            /\ UNCHANGED <<progress, missing_ids, remaining, lastEnd>>
       ELSE /\ lastEnd' = "done"
            /\ ProcessGone

\* the process is terminated from outside
Kill ==
    /\ pc # "idle"
    /\ UNCHANGED seedVars
    /\ lastEnd' = "killed"
    /\ ProcessGone
    /\ UNCHANGED <<store, disk, runs, outcomes, succ, startup, ledger>>

Step ==
    \/ EnterLoop
    \/ GenerateEN
    \/ GenerateID
    \/ UpdateSupabase
    \/ RecordSuccess
    \/ FinishRecord

Next == Start \/ Step \/ Kill

Spec == Init /\ [][Next]_vars

TypeOK ==
    /\ pc \in {"idle", "main", "gen_en", "gen_id", "patch", "patched", "save_ok", "save_err"}
    /\ disk.state \in {"absent", "torn", "valid"}
    /\ idx \in 0..NumAyat
    /\ attempt \in 0..(MAX_RETRIES - 1)

(* --------------------------- Seeder process ---------------------------- *)
\* upload_to_supabase(): batch = records[i:i + batch_size]
batch ==
    SubSeq(records, offset + 1,
           IF offset + batch_size < Len(records)
           THEN offset + batch_size ELSE Len(records))

IdsOf(payload) == [n \in 1..Len(payload) |-> payload[n].id]

\* the Seeder process is gone
SeederGone ==
    /\ seedPc' = "idle"
    /\ records' = <<>>
    /\ offset' = 0
    /\ rec_no' = 0

\* upload_to_supabase(): the for loop goes to its next batch, or ends
NextBatch ==
    /\ offset' = offset + batch_size
    /\ rec_no' = 0
    /\ seedPc' = IF offset + batch_size < Len(records) THEN "batch" ELSE "verify"
    /\ UNCHANGED <<records, seedEnd>>

\* The start of the Seeder: the module-level check of the environment,
\* main()'s check of the SQLite file, the read of the source and the
\* building of records.
SeedStart ==
    /\ seedPc = "idle"
    /\ pc = "idle"
    /\ seedRuns < MaxSeedRuns
    /\ UNCHANGED <<store, columns, disk, pc, locals, hist>>
    /\ posted' = <<>>
    /\ \E config \in {"ok", "no_env", "no_db"} :
         IF config # "ok"
         THEN \* sys.exit(1)
              /\ seedEnd' = config
              /\ UNCHANGED <<seedPc, records, offset, rec_no, seedRuns>>
         ELSE /\ seedEnd' = "running"
              /\ seedRuns' = seedRuns + 1
              /\ records' = [k \in DOMAIN get_ayat_from_sqlite |->
                                SeedRecord(get_ayat_from_sqlite[k])]
              /\ offset' = 0
              /\ rec_no' = 0
              /\ seedPc' = IF get_ayat_from_sqlite = <<>> THEN "verify" ELSE "batch"

\* upload_to_supabase(): the POST of one batch and the handling of its answer
\*   "ok": accepted; "conflict": HTTPError 409; "http_error": any other
\*   HTTPError; "error": an exception that is no HTTPError (URLError, timeout)
PostBatch ==
    /\ seedPc = "batch"
    /\ UNCHANGED <<disk, pc, locals, hist, seedRuns>>
    /\ \E resp \in {"ok", "conflict", "http_error", "error"} :
         /\ posted' = Append(posted, [kind |-> "batch", ids |-> IdsOf(batch),
                                      resp |-> resp])
         /\ IF resp = "ok"
            THEN /\ store' = UpsertStore(store, batch)
                 /\ columns' = UpsertColumns(columns, batch)
                 /\ NextBatch
            ELSE IF resp = "conflict"
            THEN /\ rec_no' = 1
                 /\ seedPc' = "single"
                 /\ UNCHANGED <<store, columns, records, offset, seedEnd>>
            ELSE \* printed
                 /\ NextBatch
                 /\ UNCHANGED <<store, columns>>

\* upload_to_supabase(): the POST of batch[rec_no] alone, inside the handler
\* of the batch's HTTPError; its own try catches HTTPError only
PostSingle ==
    /\ seedPc = "single"
    /\ UNCHANGED <<disk, pc, locals, hist, seedRuns>>
    /\ \E resp \in {"ok", "conflict", "http_error", "error"} :
         LET record == batch[rec_no]
         IN /\ posted' = Append(posted, [kind |-> "single", ids |-> <<record.id>>,
                                         resp |-> resp])
            /\ IF resp = "error"
               THEN \* raised inside the except clause: leaves
                    \* upload_to_supabase() and main()
                    /\ seedEnd' = "raised"
                    /\ SeederGone
                    /\ UNCHANGED <<store, columns>>
               ELSE /\ store' = IF resp = "ok"
                                THEN UpsertStore(store, <<record>>) ELSE store
                    /\ columns' = IF resp = "ok"
                                  THEN UpsertColumns(columns, <<record>>)
                                  ELSE columns
                    /\ IF rec_no < Len(batch)
                       THEN /\ rec_no' = rec_no + 1
                            /\ UNCHANGED <<seedPc, records, offset, seedEnd>>
                       ELSE NextBatch

\* main(): verify_upload() and the comparison with len(ayat_list)
VerifyUpload ==
    /\ seedPc = "verify"
    /\ UNCHANGED <<store, columns, disk, pc, locals, hist, posted, seedRuns>>
    /\ \E queryOk \in BOOLEAN :
         seedEnd' = IF verify_upload(store, queryOk) = Len(records)
                    THEN "success" ELSE "warning"
    /\ SeederGone

\* The table when the Seeder is run: for each ayah of the source no row, the
\* row of an earlier upload (of this source or of an earlier version of it),
\* or a row that the Summary Generator has enriched; the generator is not
\* running.
SeedInit ==
    /\ \E kind \in [1..NumSeed -> {"absent", "seeded", "stale", "enriched"}] :
         /\ store = [k \in 1..NumSeed |->
                        IF kind[k] = "absent" THEN EmptyRow
                        ELSE IF kind[k] = "enriched" THEN EnrichedRow
                        ELSE SeededRow]
         /\ columns = [k \in 1..NumSeed |->
                          IF kind[k] = "absent" THEN None
                          ELSE IF kind[k] = "stale" THEN Some(StaleColumns(k))
                          ELSE Some(SeedRecord(SourceRow(k)))]
    /\ SeederIdle
    /\ GeneratorIdle

SeedNext == SeedStart \/ PostBatch \/ PostSingle \/ VerifyUpload

SeedSpec == SeedInit /\ [][SeedNext]_vars

(* ------------------------------ claims --------------------------------- *)
\* the process is about to call the completion API or to PATCH for ayah
Calling == pc \in {"gen_en", "gen_id", "patch"}

\* ids that reached a terminal success in the run before the current one
SucceededInPreviousRun == {i \in Ids : runs > 1 /\ succ[i] = runs - 1}

\* ids that reached a terminal success in the latest run
SucceededInLatestRun == {i \in Ids : runs > 0 /\ succ[i] = runs}

Populated(v) == v # None /\ v[1] # <<>>

\* C1: a run restarted after a run that was terminated, with the
\* missing-field query succeeding, makes no completion call and no PATCH for
\* a record that the terminated run had processed successfully (PATCHed and
\* checkpointed).
C1_NoRegenerationAfterRestart ==
    (Calling /\ missing_ids # None) => ayah.id \notin SucceededInPreviousRun

\* C1 witness: the restarted run, in store-query mode after a kill, is
\* calling for a record while another one succeeded in the killed run.
C1_Witness ==
    /\ Calling
    /\ missing_ids # None
    /\ lastEnd = "killed"
    /\ SucceededInPreviousRun # {}

\* C2: once a run has ended in which every processed record succeeded, every
\* row of the destination has both derived fields populated and non-empty.
C2_CompleteAfterSuccessfulRun ==
    (/\ pc = "idle"
     /\ runs > 0
     /\ lastEnd = "done"
     /\ \A k \in DOMAIN outcomes : outcomes[k].ok)
    => \A i \in Ids : store[i].present =>
           Populated(store[i].en) /\ Populated(store[i].idn)

\* C3: after a kill, the checkpoint a restart reads is readable and reflects
\* every record the killed run completed; the restarted run does not process
\* such a record again and starts above the last checkpointed identifier.
C3_KillLosesOnlyInFlight ==
    lastEnd = "killed" =>
        /\ pc = "idle" =>
              /\ disk.state # "torn"
              /\ \A i \in SucceededInLatestRun :
                    /\ load_progress(disk).last_completed_id >= i
                    /\ load_progress(disk).total_generated >= 1
        /\ pc = "main" =>
              \A k \in DOMAIN remaining :
                  /\ remaining[k].id \notin SucceededInPreviousRun
                  /\ remaining[k].id > progress.last_completed_id

\* the step is the termination of the process from outside
KillStep == pc # "idle" /\ pc' = "idle" /\ lastEnd' = "killed"

C4_State ==
    Calling => \A k \in DOMAIN outcomes : outcomes[k].id # ayah.id

C4_Action ==
    /\ attempt' # attempt =>
          \/ attempt' = attempt + 1 /\ pc' = "gen_en"
          \/ attempt' = 0
    /\ (pc # "idle" /\ pc' # "idle" /\ progress'.errors # progress.errors) =>
          /\ attempt = 3 - 1
          /\ pc' = "save_err"
          /\ progress'.errors =
                Append(progress.errors,
                       [ayah_id |-> remaining[idx].id,
                        surah_ayah |-> <<remaining[idx].surah_id,
                                         remaining[idx].ayah_number>>])
    /\ (pc = "save_err" /\ ~KillStep) =>
          /\ outcomes' = Append(outcomes, [id |-> remaining[idx].id, ok |-> FALSE])
          /\ disk' = [state |-> "valid", doc |-> progress]
          /\ pc' = "idle" \/ (idx' = idx + 1 /\ remaining' = remaining)

\* C4: a record whose attempts all fail is attempted exactly MAX_RETRIES (3)
\* times (attempts 0, 1, 2, each starting at the English generation); the
\* third failure appends exactly one entry with the record's identifier and
\* surah:ayah label to the checkpoint's errors, the record's outcome is a
\* failure, and the run never calls for that record again.
C4_RetryExhaustion == []C4_State /\ [][C4_Action]_vars

\* C4 witness: the third attempt of a record has failed and its failure
\* entry is being saved, no completion call for it having ever returned.
C4_Witness ==
    /\ pc = "save_err"
    /\ attempt = 2
    /\ summary_en = None
    /\ progress.errors # <<>>
    /\ progress.errors[Len(progress.errors)].ayah_id = ayah.id

C5_State ==
    pc \in {"patched", "save_ok"} =>
        sent = << [id |-> ayah.id,
                   body |-> [context_summary_en |-> summary_en[1],
                             context_summary_id |-> summary_id[1]]] >>

C5_Action ==
    /\ (pc = "patch" /\ pc' = "patched") =>
          store' = [i \in Ids |->
                      IF i = remaining[idx].id /\ store[i].present
                      THEN [present |-> TRUE, en |-> summary_en, idn |-> summary_id]
                      ELSE store[i]]
    /\ (pc = "patched" /\ ~KillStep) =>
          /\ pc' = "save_ok"
          /\ progress' = [last_completed_id |-> remaining[idx].id,
                          total_generated |-> progress.total_generated + 1,
                          errors |-> progress.errors]
    /\ (pc = "save_ok" /\ ~KillStep) =>
          /\ disk' = [state |-> "valid", doc |-> progress]
          /\ outcomes' = Append(outcomes, [id |-> remaining[idx].id, ok |-> TRUE])
          /\ pc' = "idle" \/ (idx' = idx + 1 /\ remaining' = remaining)

\* C5: an attempt for record i in which both completion calls return (E, I)
\* and the store update succeeds has issued exactly one PATCH, keyed by i with
\* body {context_summary_en: E, context_summary_id: I}; the checkpoint then
\* gets last_completed_id = i and total_generated + 1, is written to the
\* file, and the run moves on to the next record.
C5_SuccessfulAttempt == []C5_State /\ [][C5_Action]_vars

\* C5 witness: a PATCH with two different summaries has succeeded on an
\* existing row and the checkpoint is being written.
C5_Witness ==
    /\ pc = "save_ok"
    /\ summary_en # summary_id
    /\ store[ayah.id].present
    /\ progress.last_completed_id = ayah.id

\* rows of the destination that still lack a summary
LackingSummaries ==
    {i \in Ids : store[i].present /\ (store[i].en = None \/ store[i].idn = None)}

\* C6: the work-set of the checkpoint fallback contains every record that
\* still lacks summaries in the destination store.
C6_FallbackOverApproximates ==
    (pc = "main" /\ missing_ids = None) =>
        \A i \in LackingSummaries : \E k \in DOMAIN remaining : remaining[k].id = i

\* identifiers that some run has fully processed (PATCHed and checkpointed)
FullyProcessed == {i \in Ids : succ[i] > 0}

MaxOf(S) == IF S = {} THEN 0 ELSE CHOOSE x \in S : \A y \in S : y <= x

\* C7: the checkpoint's last_completed_id is the highest identifier that has
\* been fully processed.
C7_LastCompletedIsHighest ==
    disk.state = "valid" => disk.doc.last_completed_id = MaxOf(FullyProcessed)

\* C8: when the missing-field query succeeded, the work-set is the source
\* records whose id the query returned (the rows with a NULL
\* context_summary_en), in source order, whatever the checkpoint holds.
C8_WorkSetFromStoreOnly ==
    (pc = "main" /\ missing_ids # None) =>
        /\ missing_ids[1] = SortedSeq({i \in Ids : store[i].present /\ store[i].en = None})
        /\ remaining = SelectSeq(AyatList, LAMBDA a : \E k \in DOMAIN missing_ids[1] :
                                                         missing_ids[1][k] = a.id)

\* C8 witness: the query succeeded and the work-set holds a record at or
\* below the checkpoint's last_completed_id.
C8_Witness ==
    /\ pc = "main"
    /\ missing_ids # None
    /\ progress.last_completed_id > 0
    /\ \E k \in DOMAIN remaining : remaining[k].id <= progress.last_completed_id

C9_State ==
    /\ pc = "gen_id" => summary_en # None /\ enAt = attempt
    /\ pc \in {"patch", "patched", "save_ok"} =>
          /\ summary_en # None /\ enAt = attempt
          /\ summary_id # None /\ idAt = attempt
    /\ \A k \in DOMAIN sent :
          /\ enAt = attempt /\ idAt = attempt
          /\ sent[k].body.context_summary_en = summary_en[1]
          /\ sent[k].body.context_summary_id = summary_id[1]

C9_Action ==
    /\ (pc # "idle" /\ pc' # "idle"
        /\ \/ progress'.last_completed_id # progress.last_completed_id
           \/ progress'.total_generated # progress.total_generated) =>
          pc = "patched"
    /\ pc' = "patched" => pc \in {"patch", "patched"}
    /\ (pc \in {"gen_en", "gen_id", "patch"} /\ attempt' = attempt + 1) => pc' = "gen_en"
    /\ (pc \in {"gen_en", "gen_id", "patch"} /\ pc' = "gen_en") => attempt' = attempt + 1

\* C9: a PATCH carries two summaries generated within the attempt that issues
\* it; last_completed_id and total_generated change only after that PATCH
\* returned without error; a failure of the English generation, of the
\* Indonesian generation or of the PATCH starts the next attempt at the
\* English generation.
C9_AllOrNothingPerRecord == []C9_State /\ [][C9_Action]_vars

\* C9 witness: the third attempt of a record is about to PATCH, summaries of
\* earlier attempts having been discarded.
C9_Witness ==
    /\ pc = "patch"
    /\ attempt = 2
    /\ enAt = 2
    /\ idAt = 2

\* steps a running process can still take, at most
StepsBound ==
    IF pc = "idle" THEN 0
    ELSE IF pc = "main" THEN 2 + 20 * Len(remaining)
    ELSE 20 * (Len(remaining) - idx)
         + (IF pc = "save_ok" \/ pc = "save_err" THEN 1
            ELSE IF pc = "patched" THEN 2
            ELSE 3 + 3 * (3 - 1 - attempt)
                 + (CASE pc = "gen_en" -> 3 [] pc = "gen_id" -> 2 [] OTHER -> 1))

C10_State ==
    /\ attempt < 3
    /\ StepsBound >= 0
    /\ pc \notin {"idle", "main"} =>
          /\ idx \in DOMAIN remaining
          /\ Len(outcomes) = idx - 1
          /\ \A k \in DOMAIN outcomes : outcomes[k].id = remaining[k].id
          /\ \A k, l \in DOMAIN remaining : k < l => remaining[k].id < remaining[l].id

C10_Action ==
    /\ pc # "idle" => StepsBound' < StepsBound
    /\ (pc # "idle" /\ pc' = "idle" /\ ~KillStep) =>
          /\ Len(outcomes') = Len(remaining)
          /\ \A k \in DOMAIN remaining : outcomes'[k].id = remaining[k].id

\* C10: the records of the work-set get their terminal outcome one by one in
\* work-set order, one outcome each, also after a record failed; every step
\* of a running process lowers a bound on the steps left (at most MAX_RETRIES
\* attempts per record), so the run ends, and it ends (unless killed) only
\* when every record of the work-set has its outcome.
C10_EveryRecordOneOutcome == []C10_State /\ [][C10_Action]_vars

\* C10 witness: a run ended normally whose first record failed and whose
\* second record succeeded.
C10_Witness ==
    /\ pc = "idle"
    /\ lastEnd = "done"
    /\ Len(outcomes) = 2
    /\ ~outcomes[1].ok
    /\ outcomes[2].ok

\* the process has made a completion call before the one it is about to make
CalledBefore == pc = "gen_id" \/ idx > 1 \/ attempt > 0

\* C14: whenever the Summary Generator is about to call the completion API
\* and has called it before, at least MIN_DELAY seconds of sleep lie between
\* the previous call and this one: between the English and the Indonesian
\* call, between a failed attempt and its retry, and between the last call
\* for one record and the first call for the next, after a success or a
\* failure alike.
C14_MinDelayBetweenCalls ==
    pc \in {"gen_en", "gen_id"} /\ CalledBefore
        => waited # None /\ waited[1] >= MIN_DELAY

\* the first call for the second record, the first record having failed
C14_Witness ==
    /\ pc = "gen_en" /\ idx = 2 /\ attempt = 0
    /\ Len(outcomes) = 1 /\ ~outcomes[1].ok
    /\ waited = Some(MIN_DELAY)

\* C15: a start that meets a configuration error (an environment variable
\* missing, the local database file missing) ends without having issued a
\* request to the remote store or to the completion API.
C15_ConfigErrorBeforeAnyWork ==
    startup.error # "none" => ~startup.requested

\* C16: the checkpoint file changes only in the save of a record's terminal
\* outcome (truncated, then rewritten with the progress in memory); a failed
\* attempt that is retried leaves the progress in memory and the file as
\* they were; an exhausted-retry failure appends one entry to errors and
\* leaves last_completed_id and total_generated as they were.
C16_Action ==
    /\ disk' # disk =>
          \/ pc = "patched" /\ pc' = "save_ok" /\ disk' = Truncated
          \/ Calling /\ pc' = "save_err" /\ disk' = Truncated
          \/ /\ pc \in {"save_ok", "save_err"}
             /\ pc' \notin {"save_ok", "save_err"}
             /\ disk' = [state |-> "valid", doc |-> progress]
    /\ Calling /\ pc' = "gen_en" /\ attempt' = attempt + 1
          => progress' = progress /\ disk' = disk
    /\ Calling /\ pc' = "save_err"
          => /\ progress'.last_completed_id = progress.last_completed_id
             /\ progress'.total_generated = progress.total_generated
             /\ Len(progress'.errors) = Len(progress.errors) + 1
             /\ SubSeq(progress'.errors, 1, Len(progress.errors)) = progress.errors

C16_CheckpointOncePerRecord == [][C16_Action]_vars

\* the second record is in its last attempt after two failed ones; the file
\* still holds what the first record's exhausted failure wrote
C16_Witness ==
    /\ pc = "gen_en" /\ idx = 2 /\ attempt = MAX_RETRIES - 1
    /\ disk = [state |-> "valid", doc |-> progress]
    /\ Len(progress.errors) = 1
    /\ progress.total_generated = 0

\* C17: the attempt after failed attempt 0 starts 2 seconds after the
\* failure and the attempt after failed attempt 1 starts 4 seconds after it
\* (MIN_DELAY * BACKOFF_MULTIPLIER^k); the last failed attempt is followed
\* by no backoff wait.
C17_BackoffSchedule ==
    /\ pc = "gen_en" /\ attempt = 1 => waited = Some(2)
    /\ pc = "gen_en" /\ attempt = 2 => waited = Some(4)
    /\ pc = "save_err" => attempt = MAX_RETRIES - 1 /\ waited = Some(0)

C17_Witness == pc = "gen_en" /\ attempt = 2 /\ waited = Some(4)

\* C18: when process_ayah has counted a record as enriched (total_generated
\* incremented, last_completed_id assigned), the destination holds the
\* record's row with both derived fields set.
C18_CountedImpliesPopulated ==
    pc = "save_ok" =>
        /\ store[ayah.id].present
        /\ store[ayah.id].en # None
        /\ store[ayah.id].idn # None

\* C20: between runs the checkpoint file, once it exists, holds the errors
\* of every exhausted record in the order they occurred and a
\* total_generated equal to the number of successful record outcomes since
\* the file was created.
C20_CheckpointIsLedger ==
    pc = "idle" /\ disk.state # "absent" =>
        /\ disk.state = "valid"
        /\ disk.doc.errors = ledger.errors
        /\ disk.doc.total_generated = ledger.successes

\* every ayah of the source has its row, with the source's values: the table
\* after a Seeder run whose uploads were accepted
Complete ==
    \A k \in DOMAIN store :
        store[k].present /\ columns[k] = Some(SeedRecord(SourceRow(k)))

\* C11: a step of the Seeder removes no row and leaves a row that holds the
\* source's values as it is, whatever the store answers; so a run of the
\* Seeder on a table that an accepted run has filled leaves the same rows
\* with the same seeded values.
C11_Action ==
    /\ \A k \in DOMAIN store :
          /\ store[k].present => store'[k].present
          /\ store[k].present /\ columns[k] = Some(SeedRecord(SourceRow(k)))
                => columns'[k] = columns[k]
    /\ Complete =>
          /\ columns' = columns
          /\ \A k \in DOMAIN store : store'[k].present = store[k].present

C11_SeedingTwiceIsSeedingOnce == [][C11_Action]_vars

\* the second run has had its first batch refused with a conflict and has
\* uploaded the first record of it alone; the table is the complete one
C11_Witness ==
    /\ seedRuns = 2 /\ seedPc = "single" /\ rec_no = 2
    /\ Len(posted) = 2
    /\ posted[1].resp = "conflict" /\ posted[2].resp = "ok"
    /\ Complete

\* position of the first POST of a batch after position p (Len + 1: none)
NextBatchAt(p) ==
    IF \E q \in (p + 1)..Len(posted) : posted[q].kind = "batch"
    THEN CHOOSE q \in (p + 1)..Len(posted) :
            /\ posted[q].kind = "batch"
            /\ \A r \in (p + 1)..(q - 1) : posted[r].kind # "batch"
    ELSE Len(posted) + 1

\* ids of the records posted alone after the batch POST at position p
RetriedAfter(p) == [n \in 1..(NextBatchAt(p) - 1 - p) |-> posted[p + n].ids[1]]

\* C12: a batch POST answered with 409 is followed by the POSTs of its
\* records alone, in the order of the batch, all of them once the Seeder has
\* left that batch.
C12_ConflictBatchRetried ==
    \A p \in DOMAIN posted :
        posted[p].kind = "batch" /\ posted[p].resp = "conflict" =>
            IF seedPc = "single" /\ NextBatchAt(p) = Len(posted) + 1
            THEN /\ Len(RetriedAfter(p)) < Len(posted[p].ids)
                 /\ RetriedAfter(p) = SubSeq(posted[p].ids, 1, Len(RetriedAfter(p)))
            ELSE RetriedAfter(p) = posted[p].ids

\* the batches of the source: ceil(n / batch_size) slices, in order
Batches ==
    [b \in 1..((NumSeed + batch_size - 1) \div batch_size) |->
        [n \in 1..(IF b * batch_size <= NumSeed
                   THEN batch_size ELSE NumSeed - (b - 1) * batch_size) |->
            get_ayat_from_sqlite[(b - 1) * batch_size + n].id]]

IsBatchPost(e) == e.kind = "batch"

\* the batches that the latest run has posted, in order
BatchesPosted ==
    LET bs == SelectSeq(posted, IsBatchPost)
    IN [n \in 1..Len(bs) |-> bs[n].ids]

\* C13: when a run of the Seeder that reached the upload has ended, each
\* batch of the source has been posted once, in order, whatever the
\* requests were answered.
C13_EveryBatchSubmittedOnce ==
    seedEnd \in {"success", "warning", "raised"} => BatchesPosted = Batches

\* C19: no record the Seeder uploads names a summary column; a step of the
\* Seeder leaves the summaries of every existing row and the checkpoint file
\* as they are, and no enriched row appears in the answer to the
\* missing-field query after it.
C19_State ==
    \A n \in DOMAIN records :
        DOMAIN records[n] \cap {"context_summary_en", "context_summary_id"} = {}

C19_Action ==
    /\ disk' = disk
    /\ \A k \in DOMAIN store :
          store[k].present =>
              /\ store'[k].en = store[k].en
              /\ store'[k].idn = store[k].idn
              /\ store[k].en # None =>
                    k \notin Range(get_ayat_without_summaries(store'))

C19_SeederKeepsSummaries == []C19_State /\ [][C19_Action]_vars

\* a run has ended after the upsert of the first batch was accepted; the
\* enriched row of ayah 1 is as it was
C19_Witness ==
    /\ seedEnd \in {"success", "warning"}
    /\ posted[1].kind = "batch" /\ posted[1].resp = "ok"
    /\ store[1] = EnrichedRow
    /\ 1 \notin Range(get_ayat_without_summaries(store))
====
